---- MODULE Spec2Model ----
(***************************************************************************)
(* Model of src/src/ssh.c (joy, Secure Shell awareness): the bounded       *)
(* printable copy, the SSH binary-packet framing, the KEXINIT decoding and *)
(* the per-flow update that drives them.                                   *)
(*                                                                         *)
(* A buffer handed to the code is a pair (data, junk): data holds the      *)
(* bytes the caller owns, junk the bytes that happen to follow them in     *)
(* memory.  The code never learns where data ends other than through its   *)
(* length argument, so a read past the end yields junk bytes: which ones   *)
(* is not decided by the program and is drawn nondeterministically.        *)
(*                                                                         *)
(* A string field of struct ssh is modelled by its bytes up to the         *)
(* terminator: Len(field) is the index at which the terminating 0 was      *)
(* written.  The field has str_size bytes, so a length of str_size means   *)
(* the terminator was written one past the end of the array.               *)
(*                                                                         *)
(* Bytes are 0..255; the chunk families only use 7-bit values (isprint on  *)
(* a negative char is outside what <ctype.h> defines).                     *)
(***************************************************************************)
EXTENDS Integers, Sequences, FiniteSets, TLC

VARIABLES
  role,            \* ssh->role
  protocol,        \* ssh->protocol, the bytes before its terminator
  cookie,          \* ssh->cookie, 16 raw bytes
  host_key_algos,  \* ssh->host_key_algos, the bytes before its terminator
  str_size,        \* sizeof(ssh->protocol) and sizeof(ssh->host_key_algos)
  ptr_size,        \* sizeof(ssh_packet) in ssh_packet_parse: a pointer's size
  obs,             \* what the most recent ssh_update call was given and did
  probe,           \* arguments and result of a lone copy_printable_string call
  nfed,            \* number of chunks ssh_unit_test has fed
  pc               \* position of the caller that feeds the record

vars ==
  << role, protocol, cookie, host_key_algos, str_size, ptr_size, obs, probe, nfed, pc >>

(***************************************************************************)
(* Bounds of the model.                                                    *)
(***************************************************************************)
\* size of ssh->protocol and of ssh->host_key_algos (set in ssh.h) in the
\* build that is fed arbitrary chunks
MAX_SSH_LEN == 4
\* largest destination capacity and longest source of a lone copy
MaxCap == 4
MaxSrc == 4
\* size of the string members in the build of the end-to-end scenario
DEMO_SSH_LEN == 32
\* number of cookies and longest padding tried in the end-to-end scenario
MaxDemoCookies == 6
MaxDemoPadding == 8
\* number of chunks ssh_unit_test feeds and the length of its longest chunk
MaxUnitChunks == 9
MaxUnitLen == 9

(***************************************************************************)
(* Program constants.                                                      *)
(***************************************************************************)
SSH_MSG_KEXINIT == 20
SSH_MSG_NEWKEYS == 21
MAX_PACKET_LENGTH == 32768
COOKIE_LEN == 16
\* sizeof(struct ssh_packet), packed: uint32 + 2 unsigned char
SSH_PACKET_SIZE == 6

role_unknown == "role_unknown"
role_client == "role_client"
role_server == "role_server"

\* the sizes a pointer has in the builds the code is made for (ILP32, LP64)
PointerSizes == {4, 8}

(***************************************************************************)
(* Bytes and memory.                                                       *)
(***************************************************************************)
Min(a, b) == IF a < b THEN a ELSE b

Take(s, n) == SubSeq(s, 1, Min(n, Len(s)))

Run(b, n) == [i \in 1..n |-> b]

\* the byte at 0-based offset i of a buffer: the caller's byte while i is
\* inside data, and whatever follows the buffer in memory beyond it
ByteAt(data, junk, i) ==
  IF i < Len(data) THEN data[i + 1]
  ELSE junk[((i - Len(data)) % Len(junk)) + 1]

\* isprint() in the "C" locale
isprint(c) == c >= 32 /\ c <= 126

(***************************************************************************)
(* unsigned int and uint32_t are 32 bits wide.  A value is kept as its two *)
(* 16-bit halves << hi, lo >>, value hi * 65536 + lo, so that arithmetic   *)
(* modulo 2^32 stays inside the integers of the model.              *)
(***************************************************************************)
U32(n) == << n \div 65536, n % 65536 >>

\* a - n modulo 2^32, for 0 <= n < 65536
U32Sub(a, n) ==
  IF a[2] >= n THEN << a[1], a[2] - n >>
  ELSE << (a[1] + 65535) % 65536, a[2] + 65536 - n >>

\* a < n, a > n and a = n, for 0 <= n < 65536
U32Lt(a, n) == a[1] = 0 /\ a[2] < n
\* a > n on the low 16 bits of a alone
U32Gt_low16(a, n) == a[2] > n
U32Gt(a, n) == a[1] > 0 \/ a[2] > n
U32Eq(a, n) == a[1] = 0 /\ a[2] = n

\* ntohl() of the four bytes at offset off: a big-endian 32-bit value
decode_uint32(data, junk, off) ==
  << ByteAt(data, junk, off) * 256 + ByteAt(data, junk, off + 1),
     ByteAt(data, junk, off + 2) * 256 + ByteAt(data, junk, off + 3) >>

\* the four bytes that encode n big-endian, for 0 <= n < 2^31
BE32(n) ==
  << (n \div 16777216) % 256, (n \div 65536) % 256, (n \div 256) % 256, n % 256 >>

(***************************************************************************)
(* copy_printable_string: while (buflen-- && datalen--) copies one byte    *)
(* unless it is not printable, then writes the terminator after the last   *)
(* copied byte.  str is what the destination holds before the terminator   *)
(* (the terminator lands at index Len(str)), nread the number of source    *)
(* bytes the loop looked at, starting at offset d.                         *)
(***************************************************************************)
RECURSIVE copy_loop(_, _, _, _, _, _)
copy_loop(buflen, data, junk, d, datalen, buf) ==
  IF buflen = 0 \/ U32Eq(datalen, 0)
  THEN [str |-> buf, nread |-> Len(buf)]
  ELSE IF ~isprint(ByteAt(data, junk, d))
       THEN [str |-> buf, nread |-> Len(buf) + 1]
       ELSE copy_loop(buflen - 1, data, junk, d + 1, U32Sub(datalen, 1),
                      Append(buf, ByteAt(data, junk, d)))

copy_printable_string(buflen, data, junk, d, datalen) ==
  copy_loop(buflen, data, junk, d, datalen, << >>)

(***************************************************************************)
(* ssh_packet_parse: the length check compares datalen with the size of    *)
(* the pointer ssh_packet (psize), not with the size of the header.        *)
(* length is the value returned, msg_code the byte stored through the      *)
(* out-parameter (-1: left unassigned), nread the header bytes read.       *)
(***************************************************************************)
\* ssh_packet_parse without the test of length against 32768
ssh_packet_parse_unbounded(data, junk, datalen, psize) ==
  IF U32Lt(datalen, psize)
  THEN [length |-> U32(0), msg_code |-> -1, nread |-> 0]
  ELSE LET length == decode_uint32(data, junk, 0) IN
       [length |-> U32Sub(U32Sub(length, ByteAt(data, junk, 4)), 5),
        msg_code |-> ByteAt(data, junk, 5),
        nread |-> SSH_PACKET_SIZE]

ssh_packet_parse(data, junk, datalen, psize) ==
  IF U32Lt(datalen, psize)
  THEN [length |-> U32(0), msg_code |-> -1, nread |-> 0]
  ELSE LET length == decode_uint32(data, junk, 0) IN
       IF U32Gt(length, MAX_PACKET_LENGTH)
       THEN [length |-> U32(0), msg_code |-> -1, nread |-> 4]
       ELSE [length |-> U32Sub(U32Sub(length, ByteAt(data, junk, 4)), 5),
             msg_code |-> ByteAt(data, junk, 5),
             nread |-> SSH_PACKET_SIZE]

(***************************************************************************)
(* The record the operators below pass along: the members of struct ssh    *)
(* (role, protocol, cookie, host_key_algos), the size of its two string    *)
(* members (size), and what the running ssh_update call has done so far:   *)
(* whether ssh_packet_parse was called (parsed), the value it returned     *)
(* (length) and stored (msg_code), whether ssh_parse_kexinit was called    *)
(* (kex_called), the length handed to it (kex_datalen), the members it     *)
(* assigned (kex_wrote), the name-list a copy into host_key_algos replaced  *)
(* (kex_overwrote) and one past the highest offset of data read (rd_end,   *)
(* 0: nothing read).                                                       *)
(***************************************************************************)
Max(a, b) == IF a > b THEN a ELSE b

(***************************************************************************)
(* ssh_parse_kexinit on the bytes at offset d with datalen declared        *)
(* available: first what follows the check of datalen against the cookie   *)
(* (the memcpy of the cookie and the first name-list), then the function.  *)
(***************************************************************************)
\* what follows the check of datalen, with a copy of the name-list that
\* writes no terminator: the bytes of the old string past the copied ones
\* stay part of host_key_algos
ssh_parse_kexinit_cookie_unterminated(s, data, junk, d, datalen) ==
       LET s1 == [s EXCEPT !.cookie = [i \in 1..COOKIE_LEN |->
                                         ByteAt(data, junk, d + i - 1)],
                           !.kex_wrote = "cookie",
                           !.rd_end = Max(s.rd_end, d + COOKIE_LEN)]
           d2 == d + COOKIE_LEN
           datalen2 == U32Sub(datalen, COOKIE_LEN)
       IN  IF U32Lt(datalen2, 4)
           THEN s1
           ELSE IF U32Eq(decode_uint32(data, junk, d2), 0)
                THEN [s1 EXCEPT !.rd_end = Max(s.rd_end, d2 + 4)]
                ELSE LET c == copy_printable_string(s.size, data, junk,
                                                    d2 + 4, U32Sub(datalen2, 4))
                     IN  [s1 EXCEPT !.host_key_algos =
                                      c.str \o SubSeq(s.host_key_algos, Len(c.str) + 1,
                                                      Len(s.host_key_algos)),
                                    !.kex_wrote = "both",
                                    !.kex_overwrote = s.host_key_algos,
                                    !.rd_end = Max(s.rd_end, d2 + 4 + c.nread)]

ssh_parse_kexinit_cookie(s, data, junk, d, datalen) ==
       LET s1 == [s EXCEPT !.cookie = [i \in 1..COOKIE_LEN |->
                                         ByteAt(data, junk, d + i - 1)],
                           !.kex_wrote = "cookie",
                           !.rd_end = Max(s.rd_end, d + COOKIE_LEN)]
           d2 == d + COOKIE_LEN
           datalen2 == U32Sub(datalen, COOKIE_LEN)
       IN  IF U32Lt(datalen2, 4)
           THEN s1
           ELSE IF U32Eq(decode_uint32(data, junk, d2), 0)
                THEN [s1 EXCEPT !.rd_end = Max(s.rd_end, d2 + 4)]
                ELSE LET c == copy_printable_string(s.size, data, junk,
                                                    d2 + 4, U32Sub(datalen2, 4))
                     IN  [s1 EXCEPT !.host_key_algos = c.str,
                                    !.kex_wrote = "both",
                                    !.kex_overwrote = s.host_key_algos,
                                    !.rd_end = Max(s.rd_end, d2 + 4 + c.nread)]

\* ssh_parse_kexinit without its first check
ssh_parse_kexinit_unchecked(s, data, junk, d, datalen) ==
  ssh_parse_kexinit_cookie(s, data, junk, d, datalen)

ssh_parse_kexinit(s, data, junk, d, datalen) ==
  IF U32Lt(datalen, COOKIE_LEN)
  THEN s
  ELSE ssh_parse_kexinit_cookie(s, data, junk, d, datalen)

(***************************************************************************)
(* The members of struct ssh in the order the data model lists them.  The  *)
(* terminator written one past a full string member lands on the first     *)
(* byte of the member that follows it: the one past protocol on cookie[0], *)
(* the one past host_key_algos, the last member, outside the record.       *)
(***************************************************************************)
ssh_members == << "role", "protocol", "cookie", "host_key_algos" >>

\* the cookie after copy_printable_string has stored str in ssh->protocol
cookie_after_protocol(s, str) ==
  IF Len(str) = s.size /\ ssh_members[3] = "cookie"
  THEN [s.cookie EXCEPT ![1] = 0]
  ELSE s.cookie

\* the banner branch of ssh_update assigning role_server
banner_role_server == role_server

\* the role the banner branch of ssh_update assigns
banner_role == role_client

\* the banner branch of ssh_update without the test of role
ssh_update_banner_any_role(s, data, junk, len) ==
  IF s.protocol = << >>
  THEN LET c == copy_printable_string(s.size, data, junk, 0, U32(len))
       IN  [s EXCEPT !.protocol = c.str,
                     !.cookie = cookie_after_protocol(s, c.str),
                     !.role = banner_role,
                     !.rd_end = Max(s.rd_end, c.nread)]
  ELSE s

(***************************************************************************)
(* The banner branch of ssh_update.                                        *)
(***************************************************************************)
ssh_update_banner(s, data, junk, len) ==
  IF s.role = role_unknown
  THEN IF s.protocol = << >>
       THEN LET c == copy_printable_string(s.size, data, junk, 0, U32(len))
            IN  [s EXCEPT !.protocol = c.str,
                          !.cookie = cookie_after_protocol(s, c.str),
                          !.role = banner_role,
                          !.rd_end = Max(s.rd_end, c.nread)]
       ELSE s
  ELSE s

(***************************************************************************)
(* The framing and dispatch of ssh_update.                                 *)
(***************************************************************************)
\* ssh_update_packet with a switch that decodes every message type
ssh_update_packet_any(s, data, junk, len, psize) ==
  LET p == ssh_packet_parse(data, junk, U32(len), psize)
      s1 == [s EXCEPT !.parsed = TRUE, !.length = p.length,
                      !.msg_code = p.msg_code,
                      !.rd_end = Max(s.rd_end, p.nread)]
  IN  IF U32Eq(p.length, 0)
      THEN s1
      ELSE ssh_parse_kexinit([s1 EXCEPT !.kex_called = TRUE,
                                        !.kex_datalen = p.length],
                             data, junk, SSH_PACKET_SIZE, p.length)

ssh_update_packet(s, data, junk, len, psize) ==
  LET p == ssh_packet_parse(data, junk, U32(len), psize)
      s1 == [s EXCEPT !.parsed = TRUE, !.length = p.length,
                      !.msg_code = p.msg_code,
                      !.rd_end = Max(s.rd_end, p.nread)]
  IN  IF U32Eq(p.length, 0)
      THEN s1
      ELSE IF p.msg_code = SSH_MSG_KEXINIT
           THEN ssh_parse_kexinit([s1 EXCEPT !.kex_called = TRUE,
                                             !.kex_datalen = p.length],
                                  data, junk, SSH_PACKET_SIZE, p.length)
           ELSE s1

\* ssh_update without the return on len == 0
ssh_update_noskip(s, data, junk, len, report_ssh, psize) ==
  IF report_ssh # 0
  THEN ssh_update_packet(ssh_update_banner(s, data, junk, len),
                         data, junk, len, psize)
  ELSE s

\* ssh_update without the test of report_ssh
ssh_update_ungated(s, data, junk, len, report_ssh, psize) ==
  IF len = 0
  THEN s
  ELSE ssh_update_packet(ssh_update_banner(s, data, junk, len),
                         data, junk, len, psize)

ssh_update(s, data, junk, len, report_ssh, psize) ==
  IF len = 0
  THEN s
  ELSE IF report_ssh # 0
       THEN ssh_update_packet(ssh_update_banner(s, data, junk, len),
                              data, junk, len, psize)
       ELSE s

\* struct ssh as ssh_init leaves it
ssh_init ==
  [role |-> role_unknown, protocol |-> << >>,
   cookie |-> Run(0, COOKIE_LEN), host_key_algos |-> << >>]

(***************************************************************************)
(* The chunks the flow-capture side feeds.                                 *)
(***************************************************************************)
\* an SSH binary packet (RFC 4253 section 6): declared packet_length,
\* padding_length, the payload (its first byte the message type), padding
Packet(packet_length, padding_length, payload, padding) ==
  BE32(packet_length) \o << padding_length >> \o payload \o padding

\* the packet whose header declares what RFC 4253 prescribes
WellFormed(payload, npad) ==
  Packet(1 + Len(payload) + npad, npad, payload, Run(112, npad))

\* a KEXINIT payload (RFC 4253 section 7.1): message type, cookie, the
\* first name-list with declared length n, and what follows it
Kexinit(ck, n, names, rest) ==
  << SSH_MSG_KEXINIT >> \o ck \o BE32(n) \o names \o rest

\* the empty chunk and the chunks of one and of two bytes out of NUL and 'A'
RawChunks ==
  { << >>, << 0 >>, << 65 >>, << 0, 0 >>, << 0, 65 >>, << 65, 0 >>, << 65, 65 >> }

\* printable chunks around the capacity of a string member
LongChunks == { Run(65, n) : n \in (MAX_SSH_LEN - 1)..(MAX_SSH_LEN + 1) }

\* 8-byte chunks with a header of adversarial field values: the pairs
\* << packet_length, padding_length >> that underflow, cancel out, leave
\* fewer than, exactly and more than a cookie, and reach or pass the ceiling
HeaderFields ==
  { << 0, 0 >>, << 5, 0 >>, << 5, 4 >>, << 21, 4 >>, << 21, 0 >>, << 26, 0 >>,
    << MAX_PACKET_LENGTH, 0 >>, << MAX_PACKET_LENGTH + 1, 0 >> }

HeaderChunks ==
  { Packet(f[1], f[2], << SSH_MSG_KEXINIT >>, << 120, 120 >>) : f \in HeaderFields }
  \cup { Packet(26, 0, << SSH_MSG_NEWKEYS >>, << 120, 120 >>) }

\* a header cut short
ShortChunks == { Take(Packet(26, 0, << SSH_MSG_KEXINIT >>, << >>), n) : n \in 4..6 }

\* a second name-list, as it follows the first in a KEXINIT message
NextNameList == BE32(1) \o << 99 >>

\* well-formed packets carrying a KEXINIT message: two cookies, a short and
\* a long first name-list, followed by the next name-list
KexinitChunks ==
  { WellFormed(Kexinit(Run(c, COOKIE_LEN), Len(names), names, NextNameList), 4) :
      c \in {67, 68},
      names \in { << 97, 98 >>, Run(110, MAX_SSH_LEN) } }

\* well-formed packets whose KEXINIT payload ends early: inside the cookie,
\* right after it, and after a first name-list that is empty or the last
\* thing in the payload
EndingKexinitChunks ==
  { WellFormed(Take(Kexinit(Run(67, COOKIE_LEN), 2, << 97, 98 >>, << >>), n), 4) :
      n \in {16, 20, 23} }
  \cup { WellFormed(Kexinit(Run(67, COOKIE_LEN), 0, << >>, NextNameList), 4) }

\* a KEXINIT message whose first name-list declares fewer bytes than follow
OverlongKexinitChunks ==
  { WellFormed(Kexinit(Run(67, COOKIE_LEN), 1, << 97, 98, 99 >>, NextNameList), 4) }

\* a KEXINIT packet but for its first byte, which is a printable one
PrintableHeadChunks ==
  { << 32 >> \o Tail(WellFormed(Kexinit(Run(68, COOKIE_LEN), 2, << 97, 98 >>,
                                         NextNameList), 4)) }

\* well-formed packets of another message type
OtherChunks ==
  { WellFormed(<< SSH_MSG_NEWKEYS >>, 4),
    WellFormed(<< SSH_MSG_NEWKEYS >> \o Run(68, COOKIE_LEN) \o BE32(1) \o << 97 >>
               \o NextNameList, 4) }

Chunks ==
  RawChunks \cup LongChunks \cup HeaderChunks \cup ShortChunks \cup KexinitChunks
  \cup EndingKexinitChunks \cup OverlongKexinitChunks \cup PrintableHeadChunks
  \cup OtherChunks

\* the chunks fed while the caller has SSH reporting switched off: an empty
\* one, a banner, a long printable one and a KEXINIT packet
GatedChunks ==
  { << >>, << 65 >>, Run(65, MAX_SSH_LEN + 1),
    WellFormed(Kexinit(Run(68, COOKIE_LEN), 2, << 97, 98 >>, NextNameList), 4) }

\* the header chunks that declare more than they hold: by underflow, and by
\* a packet_length beyond the chunk
OverdeclaringChunks ==
  { Packet(f[1], f[2], << SSH_MSG_KEXINIT >>, << 120, 120 >>) :
      f \in { << 0, 0 >>, << 26, 0 >> } }

\* a buffer is a chunk and what follows it in memory: zero bytes after
\* every chunk, and also printable bytes after the chunks past whose end
\* the code reads
Buffers ==
  { << data, << 0 >> >> : data \in Chunks }
  \cup { << data, << 122 >> >> : data \in OverdeclaringChunks \cup ShortChunks }

(***************************************************************************)
(* State.                                                                  *)
(***************************************************************************)
NoCall ==
  [called |-> FALSE, fed |-> FALSE, data |-> << >>, junk |-> << >>, report_ssh |-> 0,
   parsed |-> FALSE, length |-> U32(0), msg_code |-> -1, kex_called |-> FALSE,
   kex_datalen |-> U32(0), kex_wrote |-> "none", kex_overwrote |-> << >>,
   rd_end |-> 0]

NoProbe == [buflen |-> 0, data |-> << >>, done |-> FALSE, str |-> << >>, nread |-> 0]

Init ==
  /\ role = ssh_init.role
  /\ protocol = ssh_init.protocol
  /\ cookie = ssh_init.cookie
  /\ host_key_algos = ssh_init.host_key_algos
  /\ str_size = MAX_SSH_LEN
  /\ ptr_size \in PointerSizes
  /\ obs = NoCall
  /\ probe = NoProbe
  /\ nfed = 0
  /\ pc = "feeding"

\* one call ssh_update(&ssh, data, Len(data), report_ssh); obs keeps the
\* arguments (junk only if the call read past the chunk), what the call did
\* and whether a non-empty chunk has ever been fed with reporting on (fed)
Update(data, junk, report_ssh) ==
  LET s0 == [role |-> role, protocol |-> protocol, cookie |-> cookie,
             host_key_algos |-> host_key_algos, size |-> str_size, parsed |-> FALSE,
             length |-> U32(0), msg_code |-> -1, kex_called |-> FALSE,
             kex_datalen |-> U32(0), kex_wrote |-> "none",
             kex_overwrote |-> << >>, rd_end |-> 0]
      s == ssh_update(s0, data, junk, Len(data), report_ssh, ptr_size)
  IN  /\ role' = s.role
      /\ protocol' = s.protocol
      /\ cookie' = s.cookie
      /\ host_key_algos' = s.host_key_algos
      /\ obs' = [called |-> TRUE,
                 fed |-> obs.fed \/ (report_ssh # 0 /\ data # << >>),
                 data |-> data,
                 junk |-> IF s.rd_end > Len(data) THEN junk ELSE << >>,
                 report_ssh |-> report_ssh, parsed |-> s.parsed,
                 length |-> s.length, msg_code |-> s.msg_code,
                 kex_called |-> s.kex_called, kex_datalen |-> s.kex_datalen,
                 kex_wrote |-> s.kex_wrote, kex_overwrote |-> s.kex_overwrote,
                 rd_end |-> s.rd_end]
      /\ UNCHANGED << str_size, ptr_size, probe >>

Feed ==
  /\ pc = "feeding"
  /\ \/ \E b \in Buffers : Update(b[1], b[2], 1)
     \/ \E data \in GatedChunks : Update(data, << 0 >>, 0)
  /\ UNCHANGED << nfed, pc >>

Next == Feed

Spec == Init /\ [][Next]_vars

(***************************************************************************)
(* copy_printable_string on its own: any destination size from 1 to        *)
(* MaxCap, any source of up to MaxSrc bytes around the edges of the        *)
(* printable range, all of it inside the source buffer.                    *)
(***************************************************************************)
CopySources == UNION { [1..n -> {31, 32, 126, 127}] : n \in 0..MaxSrc }

InitCopy ==
  /\ role = ssh_init.role
  /\ protocol = ssh_init.protocol
  /\ cookie = ssh_init.cookie
  /\ host_key_algos = ssh_init.host_key_algos
  /\ str_size = MAX_SSH_LEN
  /\ ptr_size \in PointerSizes
  /\ obs = NoCall
  /\ probe \in { [NoProbe EXCEPT !.buflen = n, !.data = d] :
                   n \in 1..MaxCap, d \in CopySources }
  /\ nfed = 0
  /\ pc = "copy"

Copy ==
  /\ pc = "copy"
  /\ ~probe.done
  /\ \E c \in { copy_printable_string(probe.buflen, probe.data, << 0 >>, 0,
                                        U32(Len(probe.data))) } :
       probe' = [probe EXCEPT !.done = TRUE, !.str = c.str, !.nread = c.nread]
  /\ UNCHANGED << role, protocol, cookie, host_key_algos, str_size, ptr_size, obs,
                  nfed, pc >>

NextCopy == Copy

SpecCopy == InitCopy /\ [][NextCopy]_vars

(***************************************************************************)
(* The end-to-end scenario: a fresh record is fed the banner chunk and     *)
(* then one chunk holding a KEXINIT packet, in a build whose string        *)
(* members have room for the scenario's strings.                           *)
(***************************************************************************)
\* "SSH-2.0-demo"
DemoBanner == << 83, 83, 72, 45, 50, 46, 48, 45, 100, 101, 109, 111 >>

\* "diffie-hellman-group14-sha1"
DemoNameList ==
  << 100, 105, 102, 102, 105, 101, 45, 104, 101, 108, 108, 109, 97, 110, 45,
     103, 114, 111, 117, 112, 49, 52, 45, 115, 104, 97, 49 >>

\* the 16 supplied bytes: k, 2k, ... modulo 256
DemoCookie(k) == [i \in 1..COOKIE_LEN |-> (i * k) % 256]

\* the KEXINIT packet of the scenario: header, cookie and name-list, then
\* either nothing or the name-lists that follow in a full message, and
\* npad bytes of padding
DemoPacket(k, rest, npad) ==
  WellFormed(Kexinit(DemoCookie(k), Len(DemoNameList), DemoNameList, rest), npad)

DemoPackets ==
  { DemoPacket(k, rest, npad) :
      k \in 1..MaxDemoCookies, rest \in { << >>, NextNameList },
      npad \in 4..MaxDemoPadding }

InitDemo ==
  /\ role = ssh_init.role
  /\ protocol = ssh_init.protocol
  /\ cookie = ssh_init.cookie
  /\ host_key_algos = ssh_init.host_key_algos
  /\ str_size = DEMO_SSH_LEN
  /\ ptr_size \in PointerSizes
  /\ obs = NoCall
  /\ probe = NoProbe
  /\ nfed = 0
  /\ pc = "demo"

FeedBanner ==
  /\ pc = "demo"
  /\ \E junk \in { << 0 >>, << 122 >> } : Update(DemoBanner, junk, 1)
  /\ pc' = "banner fed"
  /\ nfed' = nfed

FeedKexinit ==
  /\ pc = "banner fed"
  /\ \E data \in DemoPackets, junk \in { << 0 >>, << 122 >> } : Update(data, junk, 1)
  /\ pc' = "kexinit fed"
  /\ nfed' = nfed

NextDemo == FeedBanner \/ FeedKexinit

SpecDemo == InitDemo /\ [][NextDemo]_vars

(***************************************************************************)
(* ssh_unit_test: a record fresh from ssh_init is fed MaxUnitChunks chunks *)
(* with reporting on, each made of zero bytes only and 1 to MaxUnitLen     *)
(* bytes long (the test feeds the lengths in rising order; any order is    *)
(* taken here), followed in memory by zero or by printable bytes.          *)
(***************************************************************************)
UnitChunks == { Run(0, n) : n \in 1..MaxUnitLen }

InitUnit ==
  /\ role = ssh_init.role
  /\ protocol = ssh_init.protocol
  /\ cookie = ssh_init.cookie
  /\ host_key_algos = ssh_init.host_key_algos
  /\ str_size = MAX_SSH_LEN
  /\ ptr_size \in PointerSizes
  /\ obs = NoCall
  /\ probe = NoProbe
  /\ nfed = 0
  /\ pc = "unit test"

FeedUnit ==
  /\ pc = "unit test"
  /\ nfed < MaxUnitChunks
  /\ \E data \in UnitChunks, junk \in { << 0 >>, << 122 >> } : Update(data, junk, 1)
  /\ nfed' = nfed + 1
  /\ pc' = pc

NextUnit == FeedUnit

SpecUnit == InitUnit /\ [][NextUnit]_vars

(***************************************************************************)
(* What the claims speak of.                                               *)
(***************************************************************************)
\* the longest prefix of s made of printable bytes
PrintablePrefix(s) ==
  LET bad == { i \in 1..Len(s) : ~isprint(s[i]) }
  IN  IF bad = {} THEN s
      ELSE SubSeq(s, 1, (CHOOSE i \in bad : \A j \in bad : i <= j) - 1)

\* the n bytes at offset off of the buffer of the last call
ObsBytes(off, n) ==
  [i \in 1..n |-> ByteAt(obs.data, IF obs.junk = << >> THEN << 0 >> ELSE obs.junk,
                         off + i - 1)]

\* the header fields of the chunk of the last call
ObsPacketLength == obs.data[1] * 16777216 + obs.data[2] * 65536
                   + obs.data[3] * 256 + obs.data[4]
ObsPaddingLength == obs.data[5]

ZeroCookie == Run(0, COOKIE_LEN)

(***************************************************************************)
(* C1: every byte ssh_update, ssh_packet_parse and ssh_parse_kexinit read  *)
(* from a chunk lies inside the chunk: the highest offset read is below    *)
(* the chunk's length.                                                     *)
(***************************************************************************)
C1_ReadsStayInsideChunk == obs.rd_end <= Len(obs.data)

(***************************************************************************)
(* C2: protocol and host_key_algos always hold a string whose terminator   *)
(* is inside the member: at index str_size - 1 at most.                    *)
(***************************************************************************)
C2_StringsTerminatedInside ==
  /\ Len(protocol) <= str_size - 1
  /\ Len(host_key_algos) <= str_size - 1

(***************************************************************************)
(* C3: the first non-empty chunk fed with reporting on sets role to client *)
(* and protocol to the chunk's printable prefix, as much of it as a        *)
(* terminated string of the member's size holds; no later call changes     *)
(* protocol.                                                               *)
(***************************************************************************)
C3_BannerStep ==
  /\ (~obs.fed /\ obs'.fed)
       => /\ role' = role_client
          /\ protocol' = Take(PrintablePrefix(obs'.data), str_size - 1)
  /\ obs.fed => protocol' = protocol
  /\ ~obs'.fed => protocol' = << >> /\ role' = role_unknown

C3_BannerSetOnceFromFirstChunk == [][C3_BannerStep]_vars

(***************************************************************************)
(* C4: cookie and host_key_algos change only in a call that runs the       *)
(* KEXINIT decoder, and a decode that lacks data (fewer than 16 bytes, or  *)
(* fewer than 4 after the cookie) leaves both as they were.                *)
(***************************************************************************)
C4_Step ==
  /\ (cookie' # cookie \/ host_key_algos' # host_key_algos) => obs'.kex_called
  /\ (obs'.kex_called /\ U32Lt(obs'.kex_datalen, COOKIE_LEN + 4))
       => (cookie' = cookie /\ host_key_algos' = host_key_algos)

C4_CookieNeverWrittenAlone == [][C4_Step]_vars

(***************************************************************************)
(* C5: when the header has padding_length + 5 > packet_length the framer   *)
(* returns 0 and the decoder is not run; the decoder is never handed a     *)
(* length above packet_length.                                             *)
(***************************************************************************)
C5_NoUnderflow ==
  (obs.parsed /\ Len(obs.data) >= SSH_PACKET_SIZE
   /\ obs.data[1] = 0 /\ obs.data[2] = 0
   /\ ObsPacketLength <= MAX_PACKET_LENGTH)
    => /\ ObsPaddingLength + 5 > ObsPacketLength
            => (U32Eq(obs.length, 0) /\ ~obs.kex_called)
       /\ obs.kex_called => ~U32Gt(obs.kex_datalen, ObsPacketLength)

(***************************************************************************)
(* C6: copy_printable_string with a destination of C >= 1 bytes and a      *)
(* source of L bytes stores the first k source bytes and the terminator    *)
(* after them, k being min(L, C - 1) unless a non-printable byte comes     *)
(* earlier, at offset p, and then p.                                       *)
(***************************************************************************)
C6_CopiesPrintablePrefixBelowCapacity ==
  probe.done =>
    probe.str = Take(PrintablePrefix(probe.data),
                     Min(Len(probe.data), probe.buflen - 1))

(***************************************************************************)
(* C7: a fresh record fed the banner "SSH-2.0-demo" and then a KEXINIT     *)
(* packet with a 16-byte cookie and the name-list                          *)
(* "diffie-hellman-group14-sha1" ends with that banner, that cookie and    *)
(* the whole name-list.                                                    *)
(***************************************************************************)
C7_EndToEnd ==
  pc = "kexinit fed" =>
    /\ protocol = DemoBanner
    /\ cookie = SubSeq(obs.data, SSH_PACKET_SIZE + 1, SSH_PACKET_SIZE + COOKIE_LEN)
    /\ host_key_algos = DemoNameList

(***************************************************************************)
(* C8: a call of ssh_parse_kexinit with fewer than 16 bytes available      *)
(* leaves cookie and host_key_algos as they were.                          *)
(***************************************************************************)
C8_Step ==
  (obs'.kex_called /\ U32Lt(obs'.kex_datalen, COOKIE_LEN))
    => (cookie' = cookie /\ host_key_algos' = host_key_algos)

C8_ShortKexinitChangesNothing == [][C8_Step]_vars

\* a decoder call with fewer than 16 bytes has left a cookie and a name-list
\* of an earlier packet in place
C8_Witness ==
  /\ obs.kex_called
  /\ U32Lt(obs.kex_datalen, COOKIE_LEN)
  /\ cookie # ZeroCookie
  /\ host_key_algos # << >>

(***************************************************************************)
(* C9: a decode that stores a name-list sets cookie to the 16 bytes of the *)
(* payload and host_key_algos to the printable prefix of the first         *)
(* min(N, remaining) bytes after the length field N, cut to what the       *)
(* member holds; no byte beyond the N declared ones is stored.             *)
(***************************************************************************)
\* min(a, n) for a 32-bit value a and a small n
Clamp(a, n) == IF a[1] > 0 THEN n ELSE Min(a[2], n)

ObsNameListOffset == SSH_PACKET_SIZE + COOKIE_LEN + 4

ObsNameListLength ==
  << ByteAt(obs.data, << 0 >>, ObsNameListOffset - 4) * 256
       + ByteAt(obs.data, << 0 >>, ObsNameListOffset - 3),
     ByteAt(obs.data, << 0 >>, ObsNameListOffset - 2) * 256
       + ByteAt(obs.data, << 0 >>, ObsNameListOffset - 1) >>

C9_NameListClampedToDeclaredLength ==
  (obs.kex_wrote = "both" /\ Len(obs.data) >= ObsNameListOffset)
    => /\ cookie = ObsBytes(SSH_PACKET_SIZE, COOKIE_LEN)
       /\ host_key_algos =
            PrintablePrefix(
              ObsBytes(ObsNameListOffset,
                       Clamp(ObsNameListLength,
                             Clamp(U32Sub(obs.kex_datalen, COOKIE_LEN + 4),
                                   str_size - 1))))

(***************************************************************************)
(* C10: role starts unknown, changes at most once, from unknown to client, *)
(* is never server and never unknown again, and ssh_update can be called   *)
(* again in every state.                                                   *)
(***************************************************************************)
C10_RoleStep ==
  \/ role' = role
  \/ role = role_unknown /\ role' = role_client

C10_RoleOnlyUnknownToClient ==
  /\ role = role_unknown
  /\ [][C10_RoleStep]_vars
  /\ [](role \in {role_unknown, role_client})
  /\ [](ENABLED Feed)

\* the record is a client's, holds a banner, and a later call has decoded a
\* KEXINIT packet
C10_Witness ==
  /\ role = role_client
  /\ protocol # << >>
  /\ obs.kex_wrote = "both"

(***************************************************************************)
(* C11: cookie starts all-zero and is set at most once: a cookie that a    *)
(* KEXINIT decode has written (it is no longer all-zero) is not changed by *)
(* any later call of ssh_update.                                           *)
(***************************************************************************)
C11_Step == cookie # ZeroCookie => cookie' = cookie

C11_CookieSetAtMostOnce == cookie = ZeroCookie /\ [][C11_Step]_vars

(***************************************************************************)
(* C12: a call of ssh_update with an empty chunk leaves role, protocol,    *)
(* cookie and host_key_algos as they were, with reporting on or off.       *)
(***************************************************************************)
C12_Step ==
  (obs'.called /\ obs'.data = << >>)
    => /\ role' = role
       /\ protocol' = protocol
       /\ cookie' = cookie
       /\ host_key_algos' = host_key_algos

C12_EmptyChunkChangesNothing == [][C12_Step]_vars

\* an empty chunk was fed with reporting on to a record that no chunk had
\* touched yet
C12_Witness ==
  /\ obs.called
  /\ obs.data = << >>
  /\ obs.report_ssh = 1
  /\ role = role_unknown

(***************************************************************************)
(* C13: a call of ssh_update with report_ssh = 0 leaves role, protocol,    *)
(* cookie and host_key_algos as they were, whatever the chunk: the chunk   *)
(* is not taken as the banner and role does not change.                    *)
(***************************************************************************)
C13_Step ==
  (obs'.called /\ obs'.report_ssh = 0)
    => /\ role' = role
       /\ protocol' = protocol
       /\ cookie' = cookie
       /\ host_key_algos' = host_key_algos

C13_GatedCallChangesNothing == [][C13_Step]_vars

\* a KEXINIT packet was fed with reporting off to a record that is still
\* as ssh_init left it
C13_Witness ==
  /\ obs.called
  /\ obs.report_ssh = 0
  /\ Len(obs.data) > SSH_PACKET_SIZE
  /\ obs.data[SSH_PACKET_SIZE] = SSH_MSG_KEXINIT
  /\ role = role_unknown
  /\ protocol = << >>
  /\ cookie = ZeroCookie
  /\ host_key_algos = << >>

(***************************************************************************)
(* C14: a call in which ssh_packet_parse returns a length other than 0 and *)
(* a message type other than SSH_MSG_KEXINIT leaves cookie and             *)
(* host_key_algos as they were; a call that changes one of them has parsed *)
(* message type SSH_MSG_KEXINIT.                                           *)
(***************************************************************************)
C14_Step ==
  /\ (obs'.parsed /\ ~U32Eq(obs'.length, 0) /\ obs'.msg_code # SSH_MSG_KEXINIT)
       => (cookie' = cookie /\ host_key_algos' = host_key_algos)
  /\ (cookie' # cookie \/ host_key_algos' # host_key_algos)
       => (obs'.parsed /\ obs'.msg_code = SSH_MSG_KEXINIT)

C14_OtherMessageTypesIgnored == [][C14_Step]_vars

\* a NEWKEYS packet that carries a cookie and a name-list of its own was
\* framed, and the record still holds the cookie of an earlier KEXINIT
C14_Witness ==
  /\ obs.parsed
  /\ ~U32Eq(obs.length, 0)
  /\ obs.msg_code = SSH_MSG_NEWKEYS
  /\ Len(obs.data) > ObsNameListOffset
  /\ cookie # ZeroCookie
  /\ cookie # ObsBytes(SSH_PACKET_SIZE, COOKIE_LEN)
  /\ host_key_algos # << >>

(***************************************************************************)
(* C15: on a chunk of fewer than 6 bytes ssh_packet_parse returns 0 and    *)
(* reads no byte at or beyond the chunk's length, and the call changes     *)
(* neither cookie nor host_key_algos.                                      *)
(***************************************************************************)
C15_ShortChunkFailsFraming ==
  (obs.parsed /\ Len(obs.data) < SSH_PACKET_SIZE)
    => /\ U32Eq(obs.length, 0)
       /\ obs.rd_end <= Len(obs.data)
       /\ obs.kex_wrote = "none"

(***************************************************************************)
(* C16: on a chunk whose first four bytes decode big-endian to more than   *)
(* 32768, ssh_packet_parse returns 0 and the call changes neither cookie   *)
(* nor host_key_algos, whatever the message-type byte.                     *)
(***************************************************************************)
\* the first four bytes of the chunk of the last call, big-endian, as the
\* two 16-bit halves of the value
ObsDeclaredLength ==
  << obs.data[1] * 256 + obs.data[2], obs.data[3] * 256 + obs.data[4] >>

C16_Step ==
  (obs'.parsed /\ Len(obs'.data) >= 4
   /\ (ObsDeclaredLength'[1] > 0 \/ ObsDeclaredLength'[2] > MAX_PACKET_LENGTH))
    => /\ U32Eq(obs'.length, 0)
       /\ ~obs'.kex_called
       /\ cookie' = cookie
       /\ host_key_algos' = host_key_algos

C16_OverlongPacketLengthFails == [][C16_Step]_vars

\* a chunk that declares 32769 bytes and message type KEXINIT was handed to
\* ssh_packet_parse while the record holds the cookie and the name-list of
\* an earlier packet
C16_Witness ==
  /\ obs.parsed
  /\ Len(obs.data) >= SSH_PACKET_SIZE
  /\ ObsDeclaredLength = << 0, MAX_PACKET_LENGTH + 1 >>
  /\ obs.data[SSH_PACKET_SIZE] = SSH_MSG_KEXINIT
  /\ cookie # ZeroCookie
  /\ host_key_algos # << >>

(***************************************************************************)
(* C17: a fresh record fed, with reporting on, any sequence of chunks made *)
(* of zero bytes only has role client, an empty protocol, an all-zero      *)
(* cookie and an empty host_key_algos, and no call has read outside its    *)
(* chunk.                                                                  *)
(***************************************************************************)
C17_ZeroChunks ==
  nfed >= 1 =>
    /\ role = role_client
    /\ protocol = << >>
    /\ cookie = ZeroCookie
    /\ host_key_algos = << >>
    /\ obs.rd_end <= Len(obs.data)

(***************************************************************************)
(* C18: every decode that stores a name-list replaces host_key_algos: when *)
(* the chunk is a KEXINIT packet whose first name-list fits the member and *)
(* is followed by the next name-list, host_key_algos is afterwards the     *)
(* printable prefix of that name-list alone, whatever it held before, also *)
(* when it held a longer string.                                           *)
(***************************************************************************)
\* the first name-list of the chunk of the last call, as its length field
\* declares it
ObsNameList == ObsBytes(ObsNameListOffset, ObsNameListLength[2])

\* the chunk of the last call holds its first name-list and the length
\* field of the next one, whose first byte is 0, and the decoder was given
\* the name-list and that byte; the name-list fits host_key_algos with its
\* terminator
ObsNameListFollowed ==
  /\ ObsNameListLength[1] = 0
  /\ ObsNameListLength[2] > 0
  /\ ObsNameListLength[2] < str_size
  /\ Len(obs.data) >= ObsNameListOffset + ObsNameListLength[2] + 4
  /\ obs.data[ObsNameListOffset + ObsNameListLength[2] + 1] = 0
  /\ ~U32Lt(obs.kex_datalen, COOKIE_LEN + 4 + ObsNameListLength[2] + 1)

C18_Step ==
  (obs'.kex_wrote = "both" /\ ObsNameListFollowed')
    => host_key_algos' = PrintablePrefix(ObsNameList')

C19_Step ==
  /\ (obs'.parsed /\ isprint(obs'.data[1]))
       => (U32Eq(obs'.length, 0) /\ ~obs'.kex_called)
  /\ (protocol' # protocol /\ protocol' # << >>)
       => (cookie' = cookie /\ host_key_algos' = host_key_algos)

C19_BannerChunkNeverDecoded == [][C19_Step]_vars

\* the first chunk was a KEXINIT packet but for its printable first byte: it
\* became the banner, and cookie and host_key_algos are still as ssh_init
\* left them
C19_Witness ==
  /\ obs.parsed
  /\ Len(obs.data) > ObsNameListOffset
  /\ isprint(obs.data[1])
  /\ obs.data[SSH_PACKET_SIZE] = SSH_MSG_KEXINIT
  /\ protocol = << obs.data[1] >>
  /\ cookie = ZeroCookie
  /\ host_key_algos = << >>

(***************************************************************************)
(* C20: when the first non-empty chunk fed with reporting on begins with a *)
(* non-printable byte, the call leaves protocol empty and sets role to     *)
(* client, and protocol stays empty in every later call, also one whose    *)
(* chunk is a printable banner.                                            *)
(***************************************************************************)
C20_Step ==
  /\ (~obs.fed /\ obs'.fed /\ ~isprint(obs'.data[1]))
       => (protocol' = << >> /\ role' = role_client)
  /\ (obs.fed /\ protocol = << >>) => protocol' = << >>

C20_EmptyBannerStaysEmpty == [][C20_Step]_vars

\* a printable chunk was fed with reporting on to a client record whose
\* protocol is empty, and protocol is still empty
C20_Witness ==
  /\ obs.called
  /\ obs.report_ssh = 1
  /\ obs.data # << >>
  /\ isprint(obs.data[1])
  /\ role = role_client
  /\ protocol = << >>

====
